---- MODULE Spec2Model ----
(***************************************************************************)
(* A model of WWBridge (src/src/index.js): the send queue, the periodic    *)
(* drain task started by _utilizeQueue, the registration handshake, the    *)
(* bridge exposed to the native host (pullOutDataById, send, _storage) and *)
(* the events dispatched on the transport iframe.                          *)
(*                                                                         *)
(* JavaScript is single threaded: every public call, every timer callback  *)
(* and every host call runs to completion, so each is one action.          *)
(*                                                                         *)
(* The debug option only adds console.log calls and is left out.  The      *)
(* variables marked "history" and "output" are not fields of the program:  *)
(* they record what it has done, for the properties to refer to.  An       *)
(* output holds what the call that just ended produced and is reset by the *)
(* next call.                                                              *)
(***************************************************************************)
EXTENDS Integers, Sequences, FiniteSets, TLC

(***************************************************************************)
(* Bounds of the model.                                                    *)
(***************************************************************************)
\* calls of the public send() made by application code, plus calls of the exposed
\* send() made by the host with the reserved name
MaxCalls == 3

(***************************************************************************)
(* Program constants.                                                      *)
(***************************************************************************)
PROTOCOL_SCHEMA == "ww"
REGISTRATION_EVENT_NAME == "_register"
BRIDGE_SEND_EVENT == "bridgeSend"
BRIDGE_REGISTER_EVENT == "bridgeRegister"

(***************************************************************************)
(* JavaScript values.  A value is a record [t, s, o]: t is its type, s the *)
(* characters of a string, o the own properties of an object.              *)
(***************************************************************************)
NoProps == [k \in {} |-> ""]
Undefined == [t |-> "undefined", s |-> "", o |-> NoProps]
JsNull == [t |-> "null", s |-> "", o |-> NoProps]
JsStr(str) == [t |-> "string", s |-> str, o |-> NoProps]
JsObj(props) == [t |-> "object", s |-> "", o |-> props]

\* the values the model's callers pass
TokenAbc == JsObj([k \in {"token"} |-> "abc"])
TokenXyzLang == JsObj([k \in {"token", "lang"} |-> IF k = "token" THEN "xyz" ELSE "en"])
PingData == JsObj([k \in {"n"} |-> "1"])

\* JSON texts
TextTokenAbc == "{\"token\":\"abc\"}"
TextTokenXyzLang == "{\"token\":\"xyz\",\"lang\":\"en\"}"
TextPingData == "{\"n\":\"1\"}"
TextNull == "null"
TextMalformed == "{x"
TextQuotedMalformed == "\"{x\""
TextQuotedEmpty == "\"\""
TextEmptyObject == "{}"

\* a value is truthy unless it is undefined, null or the empty string
Truthy(v) == ~(v.t \in {"undefined", "null"} \/ (v.t = "string" /\ v.s = ""))

\* JSON.parse(text): the parsed value, or a thrown SyntaxError
JsonParse(text) ==
    CASE text = TextTokenAbc -> [ok |-> TRUE, value |-> TokenAbc]
      [] text = TextTokenXyzLang -> [ok |-> TRUE, value |-> TokenXyzLang]
      [] text = TextPingData -> [ok |-> TRUE, value |-> PingData]
      [] text = TextNull -> [ok |-> TRUE, value |-> JsNull]
      [] text = TextQuotedMalformed -> [ok |-> TRUE, value |-> JsStr(TextMalformed)]
      [] text = TextQuotedEmpty -> [ok |-> TRUE, value |-> JsStr("")]
      [] text = TextEmptyObject -> [ok |-> TRUE, value |-> JsObj(NoProps)]
      [] OTHER -> [ok |-> FALSE, value |-> Undefined]

\* JSON.stringify(v): a string value, or undefined when v is undefined
JsonStringify(v) ==
    CASE v.t = "undefined" -> Undefined
      [] v.t = "null" -> JsStr(TextNull)
      [] v.t = "string" /\ v.s = TextMalformed -> JsStr(TextQuotedMalformed)
      [] v.t = "string" /\ v.s = "" -> JsStr(TextQuotedEmpty)
      [] v = TokenAbc -> JsStr(TextTokenAbc)
      [] v = TokenXyzLang -> JsStr(TextTokenXyzLang)
      [] v = PingData -> JsStr(TextPingData)
      [] OTHER -> JsStr(TextEmptyObject)

\* the own enumerable properties an object spread ...v copies
SpreadProps(v) ==
    CASE v.t = "object" -> v.o
      [] v.t = "string" /\ v.s = TextMalformed ->
            [k \in {"0", "1"} |-> IF k = "0" THEN "{" ELSE "x"]
      [] OTHER -> NoProps

\* a faulty merge: the keys of the first map win ({ ...b, ...a })
SpreadMergeOldWins(a, b) ==
    [k \in (DOMAIN a) \cup (DOMAIN b) |-> IF k \in DOMAIN a THEN a[k] ELSE b[k]]

\* { ...a, ...b } on property maps
SpreadMerge(a, b) ==
    [k \in (DOMAIN a) \cup (DOMAIN b) |-> IF k \in DOMAIN b THEN b[k] ELSE a[k]]

(***************************************************************************)
(* State.                                                                  *)
(***************************************************************************)
VARIABLES
    hasWindow,                  \* typeof window !== 'undefined'
    sendQueue,                  \* this._sendQueue
    interval,                   \* this._interval: a timer handle or NoTimer
    timers,                     \* the periodic tasks setInterval has started
    isBridgeRegistered,         \* this._isBridgeRegistered
    isBridgeRegistrationSent,   \* this._isBridgeRegistrationSent
    storage,                    \* this._storage (the snapshot the getter returns)
    registerHandler,            \* this._registerHandler is set
    listeners,                  \* the listeners added to this._iframe
    bridgeStorage,              \* window.mobileBridge._storage
    iframeSrc,                  \* the src attribute of this._iframe
    nextId,                     \* the ids _generateId has handed out so far, plus one
    enqueuedLog,                \* history: the events send() has pushed, in order
    deliveredLog,               \* history: the events written to the transport, in order
    appSends,                   \* history: calls of send() by the application
    hostRegs,                   \* history: host calls of the exposed send('_register')
    regTransitions,             \* history: changes of _isBridgeRegistered to true
    registerEmits,              \* history: 'bridgeRegister' events dispatched
    hostCall,                   \* output: the arguments of the exposed send() that just ended
    dispatched,                 \* output: the events the call that just ended dispatched
    lastPull,                   \* output: what the call that just ended returned, if a pull
    pulled,                     \* history: ids pulled since their delivery
    threw                       \* history: an operation ended in an uncaught error

vars == <<hasWindow, sendQueue, interval, timers, isBridgeRegistered,
          isBridgeRegistrationSent, storage, registerHandler, listeners,
          bridgeStorage, iframeSrc, nextId, enqueuedLog, deliveredLog, appSends,
          hostRegs, regTransitions, registerEmits,
          hostCall, dispatched, lastPull, pulled, threw>>

bridgeVars == <<sendQueue, interval, timers, isBridgeRegistered,
                isBridgeRegistrationSent, storage, registerHandler, bridgeStorage,
                iframeSrc, nextId, enqueuedLog, deliveredLog>>

\* this._interval = null (also its value before the first setInterval)
NoTimer == 0

\* what the model's callers pass
AppCalls == {<<REGISTRATION_EVENT_NAME, Undefined>>, <<"ping", PingData>>}
HostOtherNames == {"pong"}
HostData == {Undefined, JsStr(TextTokenAbc), JsStr(TextTokenXyzLang), JsStr(TextMalformed)}
AppEventTypes == {BRIDGE_SEND_EVENT, BRIDGE_REGISTER_EVENT}

\* no exposed send() has just ended
NoCall == [name |-> "", data |-> Undefined]
\* no pull has just ended
NoPull == [id |-> 0, result |-> Undefined]
Range(seq) == {seq[i] : i \in 1..Len(seq)}

(***************************************************************************)
(* Helpers of the bridge.                                                  *)
(***************************************************************************)
\* _generateId: a fresh 128-bit random id; the model hands out 1, 2, 3, ...
\* (ids of one bridge never collide)
GenerateId == nextId

\* _wrapSchema
WrapSchema(eventName, id) ==
    PROTOCOL_SCHEMA \o "://" \o eventName \o "/" \o ToString(id)

\* setInterval: a handle no running task has
FreshTimer == CHOOSE t \in 1..(Cardinality(timers) + 1) : t \notin timers

\* a faulty test: _utilizeQueue never starts a task
IntervalAlwaysPresent(handle) == TRUE

\* a faulty test: _utilizeQueue always starts a task
IntervalNeverPresent(handle) == FALSE

\* _utilizeQueue's test `if (this._interval) return;`
IntervalPresent(handle) == handle # NoTimer

\* _createEvent's detail.data: the parsed JSON when the data is truthy and parses,
\* else the data as it was passed
EventData(data) ==
    IF Truthy(data) /\ JsonParse(data.s).ok THEN JsonParse(data.s).value ELSE data

\* the listeners a dispatchEvent of the given type invokes
Invoked(type) == {l[2] : l \in {m \in listeners : m[1] = type}}

\* a faulty remove: nothing is found, whatever the array holds
RemovedNone(queue, name) == <<>>

\* lodash remove(array, { name }): the removed elements, in order
Removed(queue, name) == SelectSeq(queue, LAMBDA e : e.name = name)

\* a faulty remove: the array keeps every element (filter instead of remove)
RemainingAll(queue, name) == queue

\* lodash remove(array, { name }): what stays in the array
Remaining(queue, name) == SelectSeq(queue, LAMBDA e : e.name # name)

\* a faulty shift: the last element (pop) instead of the first
ShiftedLast(queue) == queue[Len(queue)]

\* Array.prototype.shift: the element returned
Shifted(queue) == Head(queue)

\* a faulty shift: two elements leave the array (splice(0, 2))
AfterShiftTwo(queue) == IF Len(queue) >= 2 THEN Tail(Tail(queue)) ELSE Tail(queue)

\* Array.prototype.shift: what stays in the array
AfterShift(queue) == Tail(queue)

\* a faulty branch test: the drain callback ignores the registration state
TakesFifoBranchAlways(registered) == TRUE

\* the branch `if (this._isBridgeRegistered)` of the drain callback
TakesFifoBranch(registered) == registered

\* a faulty assignment: the flag follows the branch, so a later tick resets it
RegistrationSentFollowsBranch(sent, fifo) == ~fifo

\* _isBridgeRegistrationSent after the callback: `this._isBridgeRegistrationSent =
\* true` in the branch taken when the bridge is not registered and the flag is false
RegistrationSentAfter(sent, fifo) == sent \/ ~fifo

\* a faulty removeEventListener: the listener stays
KeepListener(ls, type, handler) == ls

\* this._iframe.removeEventListener(type, handler)
RemoveListener(ls, type, handler) == ls \ {<<type, handler>>}

\* a faulty test: the registration handler handles every event name
HandlesAnyName(name) == TRUE

\* the registration handler's test `if (name === REGISTRATION_EVENT_NAME)`
HandlesName(name) == name = REGISTRATION_EVENT_NAME

\* a faulty delete: pullOutDataById keeps the entry
KeepKey(store, id) == store

\* delete window.mobileBridge._storage[id]
DeleteKey(store, id) == [k \in (DOMAIN store) \ {id} |-> store[k]]

\* a faulty write: _addData stores nothing
PutNothing(store, id, value) == store

\* window.mobileBridge._storage[id] = value
PutKey(store, id, value) ==
    [k \in (DOMAIN store) \cup {id} |-> IF k = id THEN value ELSE store[k]]

(***************************************************************************)
(* Init: the state after `new WWBridge()`.  With a window the constructor  *)
(* creates the iframe, exposes window.mobileBridge, adds the registration  *)
(* handler and calls send('_register'), which starts the drain task.       *)
(* Without one it does none of this.                                       *)
(***************************************************************************)
RegistrationEvent == [name |-> REGISTRATION_EVENT_NAME, data |-> Undefined, id |-> 1]

Init ==
    /\ hasWindow \in BOOLEAN
    /\ sendQueue = IF hasWindow THEN <<RegistrationEvent>> ELSE <<>>
    /\ interval = IF hasWindow THEN 1 ELSE NoTimer
    /\ timers = IF hasWindow THEN {1} ELSE {}
    /\ isBridgeRegistered = FALSE
    /\ isBridgeRegistrationSent = FALSE
    /\ storage = NoProps
    /\ registerHandler = hasWindow
    /\ listeners = IF hasWindow THEN {<<BRIDGE_SEND_EVENT, "registerHandler">>} ELSE {}
    /\ bridgeStorage = [k \in {} |-> Undefined]
    /\ iframeSrc = ""
    /\ nextId = IF hasWindow THEN 2 ELSE 1
    /\ enqueuedLog = IF hasWindow THEN <<RegistrationEvent>> ELSE <<>>
    /\ deliveredLog = <<>>
    /\ appSends = 0
    /\ hostRegs = 0
    /\ regTransitions = 0
    /\ registerEmits = 0
    /\ hostCall = NoCall
    /\ dispatched = <<>>
    /\ lastPull = NoPull
    /\ pulled = {}
    /\ threw = FALSE

(***************************************************************************)
(* send(name, data): push the event, then _utilizeQueue().                 *)
(***************************************************************************)
Send(name, data) ==
    /\ appSends + hostRegs < MaxCalls
    /\ LET evt == [name |-> name, data |-> data, id |-> GenerateId]
       IN  /\ sendQueue' = Append(sendQueue, evt)
           /\ enqueuedLog' = Append(enqueuedLog, evt)
    /\ nextId' = nextId + 1
    /\ appSends' = appSends + 1
    /\ IF IntervalPresent(interval)
       THEN UNCHANGED <<interval, timers>>
       ELSE /\ interval' = FreshTimer
            /\ timers' = timers \cup {FreshTimer}
    /\ UNCHANGED <<hasWindow, isBridgeRegistered, isBridgeRegistrationSent, storage,
                   registerHandler, listeners, bridgeStorage, iframeSrc, deliveredLog,
                   hostRegs, regTransitions, registerEmits, pulled, threw>>
    /\ hostCall' = NoCall
    /\ dispatched' = <<>>
    /\ lastPull' = NoPull

(***************************************************************************)
(* on(name, handler) and remove(name, handler), called by the application  *)
(* with a handler of its own: nothing happens without a window.            *)
(***************************************************************************)
On(type) ==
    /\ listeners' = IF hasWindow THEN listeners \cup {<<type, "appHandler">>} ELSE listeners
    /\ UNCHANGED <<hasWindow, bridgeVars, appSends, hostRegs, regTransitions,
                   registerEmits, pulled, threw>>
    /\ hostCall' = NoCall
    /\ dispatched' = <<>>
    /\ lastPull' = NoPull

Remove(type) ==
    /\ listeners' = IF hasWindow THEN RemoveListener(listeners, type, "appHandler")
                     ELSE listeners
    /\ UNCHANGED <<hasWindow, bridgeVars, appSends, hostRegs, regTransitions,
                   registerEmits, pulled, threw>>
    /\ hostCall' = NoCall
    /\ dispatched' = <<>>
    /\ lastPull' = NoPull

(***************************************************************************)
(* One run of the callback a periodic task of _utilizeQueue calls.         *)
(***************************************************************************)
\* the events the callback takes out of the queue; the first one is `evt`
Taken ==
    IF TakesFifoBranch(isBridgeRegistered) THEN <<Shifted(sendQueue)>>
    ELSE IF ~isBridgeRegistrationSent THEN Removed(sendQueue, REGISTRATION_EVENT_NAME)
    ELSE <<>>

\* the queue the callback leaves
Left ==
    IF TakesFifoBranch(isBridgeRegistered) THEN AfterShift(sendQueue)
    ELSE IF ~isBridgeRegistrationSent THEN Remaining(sendQueue, REGISTRATION_EVENT_NAME)
    ELSE sendQueue

Tick(t) ==
    /\ t \in timers
    /\ IF Len(sendQueue) = 0
       THEN /\ timers' = timers \ {interval}
            /\ interval' = NoTimer
            /\ UNCHANGED <<sendQueue, isBridgeRegistrationSent, registerHandler,
                           listeners, bridgeStorage, iframeSrc, deliveredLog, threw>>
       ELSE /\ UNCHANGED <<interval, timers>>
            /\ sendQueue' = Left
            /\ isBridgeRegistrationSent' =
                  RegistrationSentAfter(isBridgeRegistrationSent,
                                        TakesFifoBranch(isBridgeRegistered))
            /\ IF TakesFifoBranch(isBridgeRegistered) /\ registerHandler
               THEN /\ registerHandler' = FALSE
                    /\ listeners' = IF hasWindow
                                    THEN RemoveListener(listeners, BRIDGE_SEND_EVENT,
                                                        "registerHandler")
                                    ELSE listeners
               ELSE UNCHANGED <<registerHandler, listeners>>
            /\ IF Len(Taken) = 0
               THEN UNCHANGED <<bridgeStorage, iframeSrc, deliveredLog, threw>>
               ELSE LET evt == Taken[1]
                    IN  IF hasWindow
                        THEN /\ iframeSrc' = WrapSchema(evt.name, evt.id)
                             /\ bridgeStorage' =
                                    PutKey(bridgeStorage, evt.id, JsonStringify(evt.data))
                             /\ deliveredLog' = Append(deliveredLog, evt)
                             /\ UNCHANGED threw
                        ELSE \* this._iframe is undefined: setAttribute throws
                             /\ threw' = TRUE
                             /\ UNCHANGED <<bridgeStorage, iframeSrc, deliveredLog>>
    /\ pulled' = pulled \ {e.id : e \in Range(deliveredLog') \ Range(deliveredLog)}
    /\ UNCHANGED <<hasWindow, isBridgeRegistered, storage, nextId, enqueuedLog, appSends,
                   hostRegs, regTransitions, registerEmits>>
    /\ hostCall' = NoCall
    /\ dispatched' = <<>>
    /\ lastPull' = NoPull

(***************************************************************************)
(* window.mobileBridge.send(name, data), called by the host: dispatch a    *)
(* 'bridgeSend' event on the iframe.  The registration handler, while it   *)
(* is a listener, handles the reserved name.                               *)
(***************************************************************************)
HostSend(name, data) ==
    /\ hasWindow
    /\ hostCall' = [name |-> name, data |-> data]
    /\ LET detail == EventData(data)
           handled == /\ <<BRIDGE_SEND_EVENT, "registerHandler">> \in listeners
                      /\ HandlesName(name)
           sendEvent == [type |-> BRIDGE_SEND_EVENT, name |-> name, data |-> detail,
                         to |-> Invoked(BRIDGE_SEND_EVENT)]
           registerEvent == [type |-> BRIDGE_REGISTER_EVENT, name |-> name,
                             data |-> EventData(JsonStringify(detail)),
                             to |-> Invoked(BRIDGE_REGISTER_EVENT)]
       IN  IF handled
           THEN /\ isBridgeRegistered' = TRUE
                /\ regTransitions' = regTransitions + (IF isBridgeRegistered THEN 0 ELSE 1)
                /\ storage' = SpreadMerge(storage,
                                 SpreadProps(IF Truthy(detail) THEN detail ELSE JsObj(NoProps)))
                /\ registerEmits' = registerEmits + 1
                /\ dispatched' = <<sendEvent, registerEvent>>
           ELSE /\ dispatched' = <<sendEvent>>
                /\ UNCHANGED <<isBridgeRegistered, regTransitions, storage, registerEmits>>
    /\ UNCHANGED <<hasWindow, sendQueue, interval, timers, isBridgeRegistrationSent,
                   registerHandler, listeners, bridgeStorage, iframeSrc, nextId,
                   enqueuedLog, deliveredLog, appSends, pulled, threw>>
    /\ lastPull' = NoPull

HostRegister ==
    /\ appSends + hostRegs < MaxCalls
    /\ hostRegs' = hostRegs + 1
    /\ \E data \in HostData : HostSend(REGISTRATION_EVENT_NAME, data)

HostOther ==
    /\ UNCHANGED hostRegs
    /\ \E name \in HostOtherNames, data \in HostData : HostSend(name, data)

(***************************************************************************)
(* window.mobileBridge.pullOutDataById(id), called by the host.            *)
(***************************************************************************)
PullOutDataById(id) ==
    /\ hasWindow
    /\ lastPull' = [id |-> id,
                    result |-> IF id \in DOMAIN bridgeStorage THEN bridgeStorage[id]
                               ELSE Undefined]
    /\ bridgeStorage' = DeleteKey(bridgeStorage, id)
    /\ hostCall' = NoCall
    /\ dispatched' = <<>>
    /\ pulled' = IF id \in {e.id : e \in Range(deliveredLog)} THEN pulled \cup {id} ELSE pulled
    /\ UNCHANGED <<hasWindow, sendQueue, interval, timers, isBridgeRegistered,
                   isBridgeRegistrationSent, storage, registerHandler, listeners,
                   iframeSrc, nextId, enqueuedLog, deliveredLog, appSends, hostRegs,
                   regTransitions, registerEmits,
                   threw>>

AppSend == \E call \in AppCalls : Send(call[1], call[2])
AppOn == \E type \in AppEventTypes : On(type)
AppRemove == \E type \in AppEventTypes : Remove(type)
DrainTick == \E t \in timers : Tick(t)
HostPull == \E id \in 1..(nextId - 1) : PullOutDataById(id)

Next ==
    \/ AppSend
    \/ AppOn
    \/ AppRemove
    \/ DrainTick
    \/ HostRegister
    \/ HostOther
    \/ HostPull

Spec == Init /\ [][Next]_vars

\* the periodic task keeps calling its callback while it is running
FairSpec == Spec /\ WF_vars(DrainTick)

(***************************************************************************)
(* Definitions the properties use.                                         *)
(***************************************************************************)
IsOrdinary(e) == e.name # REGISTRATION_EVENT_NAME
Ordinary(seq) == SelectSeq(seq, IsOrdinary)
DeliveredIds == {e.id : e \in Range(deliveredLog)}
\* the place of an event in the order of the send() calls
Pos(e) == CHOOSE k \in 1..Len(enqueuedLog) : enqueuedLog[k] = e
NoDuplicates(seq) == \A i, j \in 1..Len(seq) : seq[i] = seq[j] => i = j
\* the application has called send() with the reserved name
AppSentReserved ==
    Len(Removed(enqueuedLog, REGISTRATION_EVENT_NAME)) > (IF hasWindow THEN 1 ELSE 0)

(***************************************************************************)
(* C1: for a bridge that has a transport (a window), an event leaves the   *)
(* send queue at most once, the step that takes it out of the queue is the *)
(* step that writes it to the transport, and no event is written to the    *)
(* transport twice.                                                        *)
(* Fails: lodash remove() takes every '_register' event out of the queue   *)
(* and only the first of them is delivered.                                *)
(***************************************************************************)
C1_RemovedExactlyWhenDelivered ==
    /\ [][\A e \in Range(sendQueue) :
            (hasWindow /\ e \notin Range(sendQueue'))
                => deliveredLog' = Append(deliveredLog, e)]_vars
    /\ [](NoDuplicates(deliveredLog))

(***************************************************************************)
(* C2: under fair ticks, once the host has answered the registration,      *)
(* every event send() has pushed, before or after the answer, is           *)
(* eventually written to the transport.                                    *)
(* Fails with C1: a '_register' event the drain callback removes without   *)
(* delivering is never delivered.                                          *)
(***************************************************************************)
C2_EveryEventDelivered ==
    \A i \in 1..(MaxCalls + 1) :
        (isBridgeRegistered /\ Len(enqueuedLog) >= i) ~> (i \in DeliveredIds)

(***************************************************************************)
(* C3: ordinary events are written to the transport in the order of their  *)
(* send() calls.                                                           *)
(***************************************************************************)
C3_OrdinaryFifo ==
    \A i, j \in 1..Len(deliveredLog) :
        (i < j /\ IsOrdinary(deliveredLog[i]) /\ IsOrdinary(deliveredLog[j]))
            => Pos(deliveredLog[i]) < Pos(deliveredLog[j])

C3_Witness ==
    /\ Len(Ordinary(deliveredLog)) >= 2
    /\ sendQueue = <<>>

(***************************************************************************)
(* C4: while _isBridgeRegistered is false, nothing but registration events *)
(* has been written to the transport, and every ordinary event pushed so   *)
(* far is still in the queue, in the order of the send() calls.            *)
(***************************************************************************)
C4_RegistrationGating ==
    ~isBridgeRegistered =>
        /\ Ordinary(deliveredLog) = <<>>
        /\ Ordinary(sendQueue) = Ordinary(enqueuedLog)

C4_Witness ==
    /\ ~isBridgeRegistered
    /\ isBridgeRegistrationSent
    /\ Len(deliveredLog) = 1
    /\ Len(Ordinary(sendQueue)) >= 2
    /\ timers # {}

(***************************************************************************)
(* C5: the first event a bridge writes to the transport is a registration  *)
(* event.                                                                  *)
(***************************************************************************)
C5_RegistrationFirst ==
    Len(deliveredLog) > 0 => deliveredLog[1].name = REGISTRATION_EVENT_NAME

C5_Witness ==
    /\ Len(deliveredLog) >= 2
    /\ deliveredLog[1] = RegistrationEvent
    /\ IsOrdinary(deliveredLog[2])
    /\ ~isBridgeRegistrationSent

(***************************************************************************)
(* C6: as long as the application has not called send() with the reserved  *)
(* name, at most one registration event has been written to the transport; *)
(* and under fair ticks the registration event the constructor pushed is   *)
(* eventually written to it, also when the host's '_register' comes before *)
(* the first tick.                                                         *)
(***************************************************************************)
C6_RegistrationSentOnce ==
    /\ [](~AppSentReserved
            => Len(Removed(deliveredLog, REGISTRATION_EVENT_NAME)) <= 1)
    /\ (hasWindow => <>(RegistrationEvent \in Range(deliveredLog)))

C6_Witness ==
    /\ ~AppSentReserved
    /\ isBridgeRegistered
    /\ ~isBridgeRegistrationSent
    /\ Removed(deliveredLog, REGISTRATION_EVENT_NAME) = <<RegistrationEvent>>
    /\ Len(deliveredLog) >= 2

(***************************************************************************)
(* C7: however many '_register' notifications the host dispatches, the     *)
(* bridge becomes registered once and dispatches one 'bridgeRegister'      *)
(* event.                                                                  *)
(* Fails: the registration handler stays a listener until a tick runs with *)
(* _isBridgeRegistered true and a non-empty queue, and handles every       *)
(* '_register' that arrives before.                                        *)
(***************************************************************************)
C7_RegisteredOnce ==
    /\ regTransitions <= 1
    /\ registerEmits <= 1

(***************************************************************************)
(* C8: the first pullOutDataById(X) after the delivery of the event with   *)
(* id X returns the JSON text of its data and removes the entry; a later   *)
(* pullOutDataById(X) returns undefined; no pull changes another entry.    *)
(***************************************************************************)
DeliveredEvent(id) == CHOOSE e \in Range(deliveredLog) : e.id = id

C8_StorageAtMostOnce ==
    [][lastPull' # NoPull =>
        LET id == lastPull'.id
        IN  /\ id \notin DOMAIN bridgeStorage'
            /\ (id \in DeliveredIds /\ id \notin pulled)
                  => lastPull'.result = JsonStringify(DeliveredEvent(id).data)
            /\ id \in pulled => lastPull'.result = Undefined
            /\ \A k \in 1..(MaxCalls + 1) : k # id =>
                  /\ (k \in DOMAIN bridgeStorage') = (k \in DOMAIN bridgeStorage)
                  /\ k \in DOMAIN bridgeStorage => bridgeStorage'[k] = bridgeStorage[k]
            /\ threw' = threw]_vars

C8_Witness ==
    /\ lastPull # NoPull
    /\ lastPull.id \in pulled
    /\ DeliveredEvent(lastPull.id).data = PingData
    /\ lastPull.result = Undefined
    /\ DOMAIN bridgeStorage # {}

(***************************************************************************)
(* C9: a bridge has at most one periodic drain task; a tick that finds the *)
(* queue empty stops the task and delivers nothing; send() starts one task *)
(* when none is running and none when one is.                              *)
(***************************************************************************)
C9_SingleDrainTask ==
    /\ [](Cardinality(timers) <= 1)
    /\ [](timers = IF interval = NoTimer THEN {} ELSE {interval})
    /\ [][(DrainTick /\ sendQueue = <<>>)
            => (timers' = {} /\ interval' = NoTimer /\ deliveredLog' = deliveredLog
                /\ iframeSrc' = iframeSrc /\ bridgeStorage' = bridgeStorage)]_vars
    /\ [][(AppSend /\ timers = {}) => Cardinality(timers') = 1]_vars
    /\ [][(AppSend /\ timers # {}) => timers' = timers]_vars

C9_Witness ==
    /\ hasWindow
    /\ timers = {}
    /\ interval = NoTimer
    /\ sendQueue = <<>>
    /\ Len(deliveredLog) >= 2

(***************************************************************************)
(* C10: when the host calls the exposed send() with data that is not empty *)
(* and does not parse as JSON, no error escapes, a 'bridgeSend' event is   *)
(* dispatched and its data is absent or null.                              *)
(* Fails: _createEvent puts the data into the detail before it parses it,  *)
(* and the catch leaves it there, so the event carries the raw string.     *)
(***************************************************************************)
C10_MalformedPayloadDropped ==
    (hostCall # NoCall /\ Truthy(hostCall.data) /\ ~JsonParse(hostCall.data.s).ok)
        => /\ ~threw
           /\ Len(dispatched) >= 1
           /\ dispatched[1].type = BRIDGE_SEND_EVENT
           /\ dispatched[1].data \in {Undefined, JsNull}

(***************************************************************************)
(* C11: a bridge constructed without a window never ends an operation in   *)
(* an error, never writes an event to the transport or to the storage, and *)
(* every tick of it selects no event.                                      *)
(* Fails: after send('_register') the tick selects the event and throws at *)
(* this._iframe.setAttribute, this._iframe being undefined.                *)
(***************************************************************************)
C11_InertWithoutWindow ==
    /\ [](~hasWindow => (~threw /\ deliveredLog = <<>> /\ DOMAIN bridgeStorage = {}
                          /\ iframeSrc = ""))
    /\ [][(~hasWindow /\ DrainTick /\ sendQueue # <<>>) => Taken = <<>>]_vars

(***************************************************************************)
(* C12: a tick writes at most one event to the transport and at most one   *)
(* entry to the storage, whatever the queue holds; a tick of a registered  *)
(* bridge on a non-empty queue shortens the queue by exactly one.          *)
(***************************************************************************)
WrittenKeys ==
    {k \in DOMAIN bridgeStorage' :
        k \notin DOMAIN bridgeStorage \/ bridgeStorage'[k] # bridgeStorage[k]}

C12_OneDeliveryPerTick ==
    [][DrainTick =>
        /\ \/ deliveredLog' = deliveredLog
           \/ \E e \in Range(sendQueue) : deliveredLog' = Append(deliveredLog, e)
        /\ Cardinality(WrittenKeys) <= 1
        /\ DOMAIN bridgeStorage \subseteq DOMAIN bridgeStorage'
        /\ (isBridgeRegistered /\ sendQueue # <<>>)
              => Len(sendQueue') = Len(sendQueue) - 1]_vars

C12_Witness ==
    /\ isBridgeRegistered
    /\ Len(deliveredLog) = 2
    /\ IsOrdinary(deliveredLog[2])
    /\ Len(sendQueue) = 1
    /\ Cardinality(DOMAIN bridgeStorage) = 2

(***************************************************************************)
(* C13: once _isBridgeRegistered is true it stays true, and once           *)
(* _isBridgeRegistrationSent is true it stays true: no step resets either. *)
(***************************************************************************)
C13_FlagsMonotonic ==
    [][/\ isBridgeRegistered => isBridgeRegistered'
       /\ isBridgeRegistrationSent => isBridgeRegistrationSent']_vars

C13_Witness ==
    /\ isBridgeRegistered
    /\ isBridgeRegistrationSent
    /\ Len(deliveredLog) >= 2
    /\ hostRegs >= 2
    /\ hostCall # NoCall
    /\ hostCall.name # REGISTRATION_EVENT_NAME

(***************************************************************************)
(* C14: a registered bridge has sent its registration: in every state      *)
(* _isBridgeRegistered implies _isBridgeRegistrationSent.                  *)
(* Fails: the registration handler sets _isBridgeRegistered whenever a     *)
(* '_register' notification arrives, also before the first tick; the ticks *)
(* after it take the registered branch, which never sets                   *)
(* _isBridgeRegistrationSent.                                              *)
(***************************************************************************)
C14_RegisteredImpliesSent ==
    isBridgeRegistered => isBridgeRegistrationSent

(***************************************************************************)
(* C15: the keys of window.mobileBridge._storage are the ids of the events *)
(* written to the transport and not pulled since; no event still in the    *)
(* queue has an entry; and the locator the iframe shows names the last     *)
(* event delivered, whose entry is there unless the host has pulled it.    *)
(***************************************************************************)
C15_StorageTracksDelivery ==
    /\ DOMAIN bridgeStorage = DeliveredIds \ pulled
    /\ \A e \in Range(sendQueue) : e.id \notin DOMAIN bridgeStorage
    /\ IF deliveredLog = <<>>
       THEN iframeSrc = ""
       ELSE LET last == deliveredLog[Len(deliveredLog)]
            IN  /\ iframeSrc = WrapSchema(last.name, last.id)
                /\ last.id \in DOMAIN bridgeStorage \/ last.id \in pulled

C15_Witness ==
    /\ Len(deliveredLog) = 2
    /\ pulled = {1}
    /\ DOMAIN bridgeStorage = {2}
    /\ sendQueue # <<>>
    /\ iframeSrc = "ww://ping/2"

(***************************************************************************)
(* C16: a tick that runs with _isBridgeRegistered true and a non-empty     *)
(* queue leaves the registration handler detached and delivers the head of *)
(* the queue in the same step; once the handler is detached it stays so,   *)
(* and no step, an inbound '_register' included, changes this._storage or  *)
(* dispatches a 'bridgeRegister' event.                                    *)
(***************************************************************************)
RegistrationListener == <<BRIDGE_SEND_EVENT, "registerHandler">>

C16_ListenerDetached ==
    /\ [][(hasWindow /\ DrainTick /\ isBridgeRegistered /\ sendQueue # <<>>)
            => /\ ~registerHandler'
               /\ RegistrationListener \notin listeners'
               /\ deliveredLog' = Append(deliveredLog, Head(sendQueue))]_vars
    /\ [][(hasWindow /\ ~registerHandler)
            => /\ ~registerHandler'
               /\ RegistrationListener \notin listeners'
               /\ storage' = storage
               /\ registerEmits' = registerEmits
               /\ \A i \in 1..Len(dispatched') :
                     dispatched'[i].type # BRIDGE_REGISTER_EVENT]_vars

C16_Witness ==
    /\ hasWindow
    /\ ~registerHandler
    /\ hostCall # NoCall
    /\ hostCall.name = REGISTRATION_EVENT_NAME
    /\ hostCall.data = JsStr(TextTokenXyzLang)
    /\ Len(dispatched) = 1
    /\ "lang" \notin DOMAIN storage

(***************************************************************************)
(* C17: an inbound '_register' handled by the registration handler sets    *)
(* _isBridgeRegistered, dispatches in the same step a 'bridgeRegister'     *)
(* event that carries the payload of the 'bridgeSend' event, and makes     *)
(* this._storage the shallow merge of the old snapshot and the payload:    *)
(* the payload's keys win, the other keys keep their values, and an absent *)
(* payload leaves the snapshot as it was.                                  *)
(***************************************************************************)
C17_RegistrationReply ==
    [][(HostRegister /\ RegistrationListener \in listeners) =>
        LET payload == dispatched'[1].data
        IN  /\ hostCall'.data = JsStr(TextTokenAbc) => payload = TokenAbc
            /\ hostCall'.data = JsStr(TextTokenXyzLang) => payload = TokenXyzLang
            /\ hostCall'.data = Undefined => payload = Undefined
            /\ isBridgeRegistered'
            /\ registerEmits' = registerEmits + 1
            /\ Len(dispatched') = 2
            /\ dispatched'[2].type = BRIDGE_REGISTER_EVENT
            /\ dispatched'[2].name = REGISTRATION_EVENT_NAME
            /\ dispatched'[2].data = payload
            /\ payload.t = "object" =>
                  /\ DOMAIN storage' = (DOMAIN storage) \cup (DOMAIN payload.o)
                  /\ \A k \in DOMAIN storage' :
                        storage'[k] = IF k \in DOMAIN payload.o THEN payload.o[k]
                                      ELSE storage[k]
            /\ payload.t \in {"undefined", "null"} => storage' = storage
            /\ \A k \in DOMAIN storage : k \in DOMAIN storage']_vars

C17_Witness ==
    /\ Len(dispatched) = 2
    /\ dispatched[2].data = TokenAbc
    /\ DOMAIN storage = {"token", "lang"}
    /\ storage["token"] = "abc"
    /\ storage["lang"] = "en"

(***************************************************************************)
(* C18: an inbound notification with another name than the reserved one    *)
(* changes neither flag, nor the send queue, nor the storage of the        *)
(* exposed bridge, nor this._storage, nor the drain task, and dispatches   *)
(* the 'bridgeSend' event only.                                            *)
(***************************************************************************)
C18_OtherInboundFrame ==
    [][(hostCall' # NoCall /\ hostCall'.name # REGISTRATION_EVENT_NAME) =>
        /\ UNCHANGED <<isBridgeRegistered, isBridgeRegistrationSent, sendQueue,
                       bridgeStorage, storage, interval, timers, registerHandler,
                       listeners>>
        /\ registerEmits' = registerEmits
        /\ regTransitions' = regTransitions
        /\ Len(dispatched') = 1
        /\ dispatched'[1].type = BRIDGE_SEND_EVENT
        /\ dispatched'[1].name = hostCall'.name]_vars

C18_Witness ==
    /\ hostCall # NoCall
    /\ hostCall.name = "pong"
    /\ hostCall.data = JsStr(TextTokenAbc)
    /\ RegistrationListener \in listeners
    /\ ~isBridgeRegistered
    /\ isBridgeRegistrationSent
    /\ sendQueue # <<>>
    /\ storage = NoProps

(***************************************************************************)
(* C19: between operations a non-empty send queue has a running drain      *)
(* task, and the only step that stops the task is a tick that found the    *)
(* queue empty.                                                            *)
(***************************************************************************)
C19_NoStrandedEvents ==
    /\ [](sendQueue # <<>> => timers # {})
    /\ [][(timers # {} /\ timers' = {})
            => (DrainTick /\ sendQueue = <<>> /\ sendQueue' = <<>>)]_vars

C19_Witness ==
    /\ ~hasWindow
    /\ isBridgeRegistrationSent
    /\ Len(sendQueue) >= 2
    /\ timers # {}
    /\ interval # NoTimer

(***************************************************************************)
(* C20: for a bridge constructed with a window, RegistrationSent is true   *)
(* only if a registration event has been delivered to the transport; the   *)
(* step that sets it is a tick delivering a registration event taken from  *)
(* the queue, and a tick that finds no registration event in the queue     *)
(* leaves the flag as it was.                                              *)
(***************************************************************************)
C20_RegistrationSentReflectsSend ==
    /\ []((hasWindow /\ isBridgeRegistrationSent)
            => \E i \in DOMAIN deliveredLog :
                  deliveredLog[i].name = REGISTRATION_EVENT_NAME)
    /\ [][(hasWindow /\ ~isBridgeRegistrationSent /\ isBridgeRegistrationSent')
            => /\ DrainTick
               /\ \E i \in DOMAIN sendQueue :
                     /\ sendQueue[i].name = REGISTRATION_EVENT_NAME
                     /\ deliveredLog' = Append(deliveredLog, sendQueue[i])
                     /\ iframeSrc' = WrapSchema(sendQueue[i].name, sendQueue[i].id)]_vars
    /\ [][(hasWindow /\ DrainTick
            /\ \A i \in DOMAIN sendQueue :
                  sendQueue[i].name # REGISTRATION_EVENT_NAME)
            => isBridgeRegistrationSent' = isBridgeRegistrationSent]_vars

C20_Witness ==
    /\ hasWindow
    /\ isBridgeRegistrationSent
    /\ ~isBridgeRegistered
    /\ deliveredLog = <<RegistrationEvent>>
    /\ iframeSrc = WrapSchema(REGISTRATION_EVENT_NAME, RegistrationEvent.id)
    /\ Len(sendQueue) >= 1

====
